---------------------------- MODULE Spec2Model ----------------------------
(***************************************************************************)
(* dr: a soft-delete utility (src/src/main.rs).  `dr p` moves p into the   *)
(* holding directory /tmp/dr under the name "{now}_{absolute path}",       *)
(* `dr -r p` moves it back, `dr -d p` deletes it for good, `dr -l` lists   *)
(* the holding directory.                                                  *)
(*                                                                         *)
(* Strings are sequences of one-character strings, so that formatting and  *)
(* splitting are computed character by character.  A PathBuf is a record   *)
(* [abs, comps]: whether the path is absolute and its components.  The     *)
(* filesystem is a function from absolute component sequences to nodes.    *)
(***************************************************************************)
EXTENDS Integers, Sequences, FiniteSets, TLC

(* ------------------------------ bounds --------------------------------- *)

\* the clock (seconds since the epoch) runs from 0 to MaxTime
MaxTime == 1
\* number of paths in one invocation
MaxBatch == 2
\* file contents are 1..MaxContent; 0 is a truncated (partially written) file
MaxContent == 2
\* number of changes made to the filesystem by other processes
MaxEnv == 2
\* a fault can be injected at the 1st..MaxCopyOps-th call of a fallback copy
MaxCopyOps == 2

(* ------------------------------ strings -------------------------------- *)

Digits == <<"0", "1", "2", "3", "4", "5", "6", "7", "8", "9">>

\* Display of a u64 in decimal, as format!("{now}") prints it
RECURSIVE DecStr(_)
DecStr(n) ==
    IF n < 10 THEN <<Digits[n + 1]>>
    ELSE DecStr(n \div 10) \o <<Digits[(n % 10) + 1]>>

\* index of the first occurrence of c in s, 0 if there is none
IndexOf(s, c) ==
    IF \E i \in 1..Len(s) : s[i] = c
    THEN CHOOSE i \in 1..Len(s) : s[i] = c /\ \A j \in 1..(i - 1) : s[j] # c
    ELSE 0

\* the parts of s before and after position i; none when i = 0
SplitAt(s, i) ==
    IF i = 0 THEN [found |-> FALSE, head |-> <<>>, tail |-> <<>>]
    ELSE [found |-> TRUE, head |-> SubSeq(s, 1, i - 1),
          tail |-> SubSeq(s, i + 1, Len(s))]

\* str::split_once(c): the parts before and after the first c
SplitOnce(s, c) == SplitAt(s, IndexOf(s, c))

\* format!("{now}_{}", p): the name under which drop stores p
StoredName(t, p) == DecStr(t) \o <<"_">> \o p

(* ------------------------------- paths --------------------------------- *)

\* the runs of characters between '/' (empty runs dropped)
RECURSIVE SplitSlash(_)
SplitSlashAt(s, i) ==
    IF i = 0 THEN <<s>>
    ELSE (IF i = 1 THEN <<>> ELSE <<SubSeq(s, 1, i - 1)>>)
         \o SplitSlash(SubSeq(s, i + 1, Len(s)))

SplitSlash(s) == IF s = <<>> THEN <<>> ELSE SplitSlashAt(s, IndexOf(s, "/"))

NotDot(c) == c # <<".">>

\* Path::new(s) seen through Path::components(): repeated and trailing
\* separators vanish, "." vanishes except at the start of a relative path
Components(isAbs, raw) ==
    [abs |-> isAbs,
     comps |-> IF isAbs \/ raw = <<>> THEN SelectSeq(raw, NotDot)
               ELSE <<raw[1]>> \o SelectSeq(Tail(raw), NotDot)]

PathNew(s) == Components(s # <<>> /\ s[1] = "/", SplitSlash(s))

\* Path::join: an absolute argument replaces the base
PathJoin(base, p) ==
    IF p.abs THEN p
    ELSE [abs |-> base.abs, comps |-> base.comps \o SelectSeq(p.comps, NotDot)]

\* Path::join(&str)
PathJoinStr(base, s) == PathJoin(base, PathNew(s))

RECURSIVE JoinSlash(_)
JoinSlash(cs) ==
    IF cs = <<>> THEN <<>>
    ELSE IF Len(cs) = 1 THEN cs[1]
    ELSE cs[1] \o <<"/">> \o JoinSlash(Tail(cs))

\* to_string_lossy() / display() of a path
PathStr(p) == IF p.abs THEN <<"/">> \o JoinSlash(p.comps) ELSE JoinSlash(p.comps)

\* Path::parent(): none for the root and for the empty path
HasParent(p) == p.comps # <<>>
PathParent(p) == [abs |-> p.abs, comps |-> SubSeq(p.comps, 1, Len(p.comps) - 1)]

\* Path::file_name() of a directory entry
FileName(p) == p.comps[Len(p.comps)]

\* const ROOT_DIR
ROOT_DIR == <<"/", "t", "m", "p", "/", "d", "r">>
Root == PathNew(ROOT_DIR)

\* env::current_dir(): the program is run in the root directory
Cwd == [abs |-> TRUE, comps |-> <<>>]

\* the key of a path in the filesystem: relative paths are looked up from
\* the working directory
Key(p) == IF p.abs THEN p.comps ELSE Cwd.comps \o p.comps


(* ------------------------------- state --------------------------------- *)

VARIABLES
    fs,      \* the filesystem: absolute component sequence -> node
    xdev,    \* TRUE when /tmp is a mount of its own (another device)
    now,     \* SystemTime::now() in seconds
    out,     \* the lines the last invocation printed (stdout and stderr)
    run,     \* the drop in progress: the paths still to process, its `now`
    ledger,  \* the entries for which drop printed "Dropped:"
    envLeft, \* changes other processes may still make
    peer     \* the invocations that run side by side (none in Spec)

vars == <<fs, xdev, now, out, run, ledger, envLeft, peer>>

(* ----------------------------- filesystem ------------------------------ *)

DirNode == [kind |-> "dir", data |-> 0]
FileNode(c) == [kind |-> "file", data |-> c]

Tmp == <<<<"t", "m", "p">>>>

Parent(k) == SubSeq(k, 1, Len(k) - 1)
IsPrefix(k, q) == Len(k) <= Len(q) /\ SubSeq(q, 1, Len(k)) = k
Suffix(k, q) == SubSeq(q, Len(k) + 1, Len(q))

\* Path::exists(), Path::is_dir()
Exists(f, k) == k \in DOMAIN f
IsDir(f, k) == k \in DOMAIN f /\ f[k].kind = "dir"

Descendants(f, k) == {q \in DOMAIN f : IsPrefix(k, q)}
ChildNames(f, k) == {q[Len(q)] : q \in {d \in DOMAIN f : Len(d) = Len(k) + 1 /\ IsPrefix(k, d)}}
Restrict(f, S) == [q \in S |-> f[q]]
Put(f, k, v) == [q \in DOMAIN f \cup {k} |-> IF q = k THEN v ELSE f[q]]
RemoveTree(f, k) == Restrict(f, DOMAIN f \ Descendants(f, k))

\* the tree below k, by relative path
Subtree(f, k) == [r \in {Suffix(k, q) : q \in Descendants(f, k)} |-> f[k \o r]]

\* the device a path lives on
Dev(k) == IF xdev /\ IsPrefix(Tmp, k) THEN 1 ELSE 0

Ok(f) == [ok |-> TRUE, kind |-> "None", fs |-> f]
Err(e, f) == [ok |-> FALSE, kind |-> e, fs |-> f]

MoveTree(f, src, dst) ==
    LET D == Descendants(f, src)
        kept == (DOMAIN f \ D) \ Descendants(f, dst)
        moved == {dst \o Suffix(src, q) : q \in D}
    IN  [q \in kept \cup moved |->
            IF q \in moved THEN f[src \o Suffix(dst, q)] ELSE f[q]]

\* fs::rename: rename(2).  The parents of both paths are resolved first, then
\* the mounts are compared, then the kinds of source and destination
FsRename(f, src, dst) ==
    IF ~Exists(f, src) THEN Err("NotFound", f)
    ELSE IF dst = <<>> \/ ~Exists(f, Parent(dst)) THEN Err("NotFound", f)
    ELSE IF ~IsDir(f, Parent(dst)) THEN Err("NotADirectory", f)
    ELSE IF Dev(src) # Dev(dst) THEN Err("CrossesDevices", f)
    ELSE IF src = dst THEN Ok(f)
    ELSE IF IsPrefix(src, dst) THEN Err("InvalidInput", f)
    ELSE IF Exists(f, dst) /\ IsDir(f, src) /\ ~IsDir(f, dst) THEN Err("NotADirectory", f)
    ELSE IF Exists(f, dst) /\ ~IsDir(f, src) /\ IsDir(f, dst) THEN Err("IsADirectory", f)
    ELSE IF IsDir(f, dst) /\ ChildNames(f, dst) # {} THEN Err("DirectoryNotEmpty", f)
    ELSE Ok(MoveTree(f, src, dst))

Prefixes(k) == {SubSeq(k, 1, i) : i \in 0..Len(k)}

\* fs::create_dir (of a single directory)
FsCreateDir(f, k) ==
    IF Exists(f, k) THEN Err("AlreadyExists", f)
    ELSE IF ~IsDir(f, Parent(k)) THEN Err("NotFound", f)
    ELSE Ok(Put(f, k, DirNode))

\* fs::create_dir_all; fail: the call fails with an I/O error
FsCreateDirAll(f, k, fail) ==
    IF fail THEN Err("Other", f)
    ELSE IF \E q \in Prefixes(k) : Exists(f, q) /\ ~IsDir(f, q) THEN Err("NotADirectory", f)
    ELSE Ok([q \in DOMAIN f \cup Prefixes(k) |-> IF q \in DOMAIN f THEN f[q] ELSE DirNode])

\* fs::copy; fail: the call fails with an I/O error, trunc: after the
\* destination was opened, which leaves it truncated
FsCopy(f, src, dst, fail, trunc) ==
    IF ~Exists(f, src) THEN Err("NotFound", f)
    ELSE IF f[src].kind # "file" THEN Err("InvalidInput", f)
    ELSE IF ~Exists(f, Parent(dst)) THEN Err("NotFound", f)
    ELSE IF ~IsDir(f, Parent(dst)) THEN Err("NotADirectory", f)
    ELSE IF IsDir(f, dst) THEN Err("IsADirectory", f)
    ELSE IF fail THEN Err("Other", IF trunc THEN Put(f, dst, FileNode(0)) ELSE f)
    ELSE Ok(Put(f, dst, FileNode(f[src].data)))

\* fs::remove_file
FsRemoveFile(f, k, fail) ==
    IF ~Exists(f, k) THEN Err("NotFound", f)
    ELSE IF IsDir(f, k) THEN Err("IsADirectory", f)
    ELSE IF fail THEN Err("PermissionDenied", f)
    ELSE Ok(RemoveTree(f, k))

\* fs::remove_dir_all; rm = "fail": fails before anything is removed,
\* rm = "partial": fails after the contents were removed
FsRemoveDirAll(f, k, rm) ==
    IF ~Exists(f, k) THEN Err("NotFound", f)
    ELSE IF rm = "fail" THEN Err("PermissionDenied", f)
    ELSE IF rm = "partial" THEN Err("PermissionDenied", Restrict(f, (DOMAIN f \ Descendants(f, k)) \cup {k}))
    ELSE Ok(RemoveTree(f, k))

\* the countdown to the injected fault: 0 is no fault, 1 is this call
Tick1(at) == IF at > 0 THEN at - 1 ELSE 0

\* copy_dir_all(src, dst).  at: which filesystem call of the copy fails
\* (0: none).  The result carries the countdown that is left.
RECURSIVE copy_dir_all(_, _, _, _, _)
RECURSIVE CopyEntries(_, _, _, _, _, _)
copy_dir_all(f, src, dst, at, trunc) ==
    LET mk == FsCreateDirAll(f, dst, at = 1)
    IN  IF ~mk.ok THEN [ok |-> FALSE, fs |-> mk.fs, at |-> 0]
        ELSE IF ~IsDir(mk.fs, src) THEN [ok |-> FALSE, fs |-> mk.fs, at |-> 0]
        ELSE CopyEntries(mk.fs, src, dst, ChildNames(mk.fs, src), Tick1(at), trunc)

\* the loop of copy_dir_all over read_dir(src), in the order read_dir yields
CopyEntries(f, src, dst, todo, at, trunc) ==
    IF todo = {} THEN [ok |-> TRUE, fs |-> f, at |-> at]
    ELSE LET n == CHOOSE n \in todo : TRUE
             s == Append(src, n)
             d == Append(dst, n)
             r == IF IsDir(f, s) THEN copy_dir_all(f, s, d, at, trunc)
                  ELSE LET c == FsCopy(f, s, d, at = 1, trunc)
                       IN  [ok |-> c.ok, fs |-> c.fs, at |-> Tick1(at)]
         IN  IF ~r.ok THEN [ok |-> FALSE, fs |-> r.fs, at |-> 0]
             ELSE CopyEntries(r.fs, src, dst, todo \ {n}, r.at, trunc)

(* ------------------------------ commands ------------------------------- *)

\* one printed line: the message, the path (or name) it is about and the
\* kind of the io::Error it reports ("None" when it reports none)
Line(m, a, e) == [msg |-> m, arg |-> a, err |-> e]

\* lexical resolution of ".." (the model has no symbolic links)
RECURSIVE DotDot(_, _)
DotDot(cs, acc) ==
    IF cs = <<>> THEN acc
    ELSE IF Head(cs) = <<".", ".">>
         THEN DotDot(Tail(cs), SubSeq(acc, 1, Len(acc) - 1))
         ELSE DotDot(Tail(cs), Append(acc, Head(cs)))

\* Path::canonicalize().unwrap_or_else(|_| filepath.to_path_buf())
canonicalize(f, p) ==
    LET c == [abs |-> TRUE, comps |-> DotDot(Key(p), <<>>)]
    IN  IF Exists(f, c.comps) THEN c ELSE p

NoFault == [copyAt |-> 0, trunc |-> FALSE, rm |-> "ok"]

\* the faults that can be injected into the cross-device fallback of one
\* entry: an I/O error in the copy, or in the removal of the source
Faults ==
    {NoFault}
    \cup {[copyAt |-> k, trunc |-> b, rm |-> "ok"] : k \in 1..MaxCopyOps, b \in BOOLEAN}
    \cup {[copyAt |-> 0, trunc |-> FALSE, rm |-> r] : r \in {"fail", "partial"}}

\* root.join(format!("{now}_{}", abs_path)): where drop stores filepath
StoredPath(f, filepath, t) ==
    PathJoinStr(Root, StoredName(t, PathStr(canonicalize(f, filepath))))

\* the fallback of drop_entries when rename crosses devices: the copy
CopyResult(c) == IF c.ok THEN Ok(c.fs) ELSE Err("Other", c.fs)

FallbackCopy(f, src, dst, fault) ==
    IF IsDir(f, src)
    THEN CopyResult(copy_dir_all(f, src, dst, fault.copyAt, fault.trunc))
    ELSE FsCopy(f, src, dst, fault.copyAt = 1, fault.trunc)

\* the fallback of drop_entries: the removal of the source after the copy
FallbackRemove(f, src, fault) ==
    IF IsDir(f, src)
    THEN FsRemoveDirAll(f, src, fault.rm)
    ELSE FsRemoveFile(f, src, fault.rm # "ok")

\* what one iteration of the loop of drop_entries leaves: the filesystem,
\* the line printed and, when the entry was dropped, the record rec of
\* what was stored where
Dropped(g, filepath, rec) ==
    [fs |-> g, line |-> Line("Dropped", PathStr(filepath), "None"), recs |-> <<rec>>]

Failed(g, filepath, m, e) ==
    [fs |-> g, line |-> Line(m, PathStr(filepath), e), recs |-> <<>>]

\* lines 298-309: rm is the result of the removal of the source
AfterRemove(rm, filepath, dst, rec) ==
    IF ~rm.ok
    THEN Failed(FsRemoveFile(rm.fs, dst, FALSE).fs, filepath,
                "Failed to remove original", rm.kind)
    ELSE Dropped(rm.fs, filepath, rec)

\* AfterCopy without the `continue` of line 289: a failed copy falls
\* through to the removal of the source
AfterCopyNoAbort(cp, filepath, src, dst, rec, fault) ==
    AfterRemove(FallbackRemove(cp.fs, src, fault), filepath, dst, rec)

\* lines 287-296: cp is the result of the copy
AfterCopy(cp, filepath, src, dst, rec, fault) ==
    IF ~cp.ok THEN Failed(cp.fs, filepath, "Failed to copy", cp.kind)
    ELSE AfterRemove(FallbackRemove(cp.fs, src, fault), filepath, dst, rec)

\* lines 279-309: rn is the result of fs::rename(filepath, &stored_path)
AfterRename(rn, f, filepath, src, dst, rec, fault) ==
    IF rn.ok THEN Dropped(rn.fs, filepath, rec)
    ELSE IF rn.kind = "CrossesDevices"
    THEN AfterCopy(FallbackCopy(f, src, dst, fault), filepath, src, dst, rec, fault)
    ELSE Failed(f, filepath, "Failed to drop", rn.kind)

\* lines 273-309: the move of the existing filepath, at key src, to the
\* stored path, at key dst
DropTo(f, filepath, t, src, dst, fault) ==
    AfterRename(FsRename(f, src, dst), f, filepath, src, dst,
                [ts |-> t, path |-> PathStr(canonicalize(f, filepath)),
                 loc |-> dst, tree |-> Subtree(f, src)],
                fault)

\* the body of the loop of drop_entries for one filepath
DropOne(f, filepath, t, fault) ==
    IF ~Exists(f, Key(filepath)) THEN Failed(f, filepath, "File not found", "None")
    ELSE DropTo(f, filepath, t, Key(filepath), Key(StoredPath(f, filepath, t)), fault)

\* filepaths.contains(&original_path): PathBuf equality is by components
Contains(filepaths, p) == \E i \in 1..Len(filepaths) : filepaths[i] = p

\* the filter_map of recover_entries and delete_entries over the scan of the
\* holding directory: the entries whose name, after the first '_', is one
\* of the requested paths
\* Matches without the test of lines 191 and 238: every entry whose name
\* has a '_' is selected
RECURSIVE MatchesAll(_, _)
MatchesAll(names, filepaths) ==
    IF names = <<>> THEN <<>>
    ELSE LET stored_path == PathJoin(Root, [abs |-> FALSE, comps |-> <<Head(names)>>])
             sp == SplitOnce(FileName(stored_path), "_")
         IN  (IF sp.found
              THEN <<[stored |-> stored_path, original |-> PathNew(sp.tail)]>>
              ELSE <<>>)
             \o MatchesAll(Tail(names), filepaths)

\* Matches with unwrap_or(filename) in place of the `?` of lines 188 and
\* 235: a name without '_' is taken whole for the original name
RECURSIVE MatchesLax(_, _)
MatchesLax(names, filepaths) ==
    IF names = <<>> THEN <<>>
    ELSE LET stored_path == PathJoin(Root, [abs |-> FALSE, comps |-> <<Head(names)>>])
             filename == FileName(stored_path)
             sp == SplitOnce(filename, "_")
             original_path == PathNew(IF sp.found THEN sp.tail ELSE filename)
         IN  (IF Contains(filepaths, original_path)
              THEN <<[stored |-> stored_path, original |-> original_path]>>
              ELSE <<>>)
             \o MatchesLax(Tail(names), filepaths)

RECURSIVE Matches(_, _)
Matches(names, filepaths) ==
    IF names = <<>> THEN <<>>
    ELSE LET stored_path == PathJoin(Root, [abs |-> FALSE, comps |-> <<Head(names)>>])
             filename == FileName(stored_path)
             sp == SplitOnce(filename, "_")
             original_path == PathNew(sp.tail)
         IN  (IF sp.found /\ Contains(filepaths, original_path)
              THEN <<[stored |-> stored_path, original |-> original_path]>>
              ELSE <<>>)
             \o Matches(Tail(names), filepaths)

\* lines 205-216 of the loop of recover_entries for one match: the parent
\* directories and the move
RecoverMove(f, m) ==
    LET orig == Key(m.original)
        sto == Key(m.stored)
        done(g, msg, e, ok) == [fs |-> g, line |-> Line(msg, PathStr(m.original), e),
                                gone |-> IF ok THEN {sto} ELSE {}]
        mk == IF HasParent(m.original)
              THEN FsCreateDirAll(f, Key(PathParent(m.original)), FALSE)
              ELSE Ok(f)
    IN  IF ~mk.ok THEN done(mk.fs, "Failed to create directories", mk.kind, FALSE)
        ELSE LET rn == FsRename(mk.fs, sto, orig)
             IN  IF rn.ok THEN done(rn.fs, "Recovered", "None", TRUE)
                 ELSE done(rn.fs, "Failed to recover", rn.kind, FALSE)

\* the outcome r of one iteration followed by the outcome of the rest
Then(r, rest) ==
    [fs |-> rest.fs, lines |-> <<r.line>> \o rest.lines, gone |-> r.gone \cup rest.gone]

\* the body of the second loop of recover_entries for one match
RecoverOne(f, m) ==
    IF Exists(f, Key(m.original))
    THEN [fs |-> f, line |-> Line("File already exists", PathStr(m.original), "None"),
          gone |-> {}]
    ELSE RecoverMove(f, m)

RECURSIVE RecoverLoop(_, _)
RecoverRest(r, ms) == Then(r, RecoverLoop(r.fs, ms))

RecoverLoop(f, ms) ==
    IF ms = <<>> THEN [fs |-> f, lines |-> <<>>, gone |-> {}]
    ELSE RecoverRest(RecoverOne(f, Head(ms)), Tail(ms))

\* recover_entries; names: the scan of the holding directory
recover_entries(f, filepaths, names) == RecoverLoop(f, Matches(names, filepaths))

\* the body of the loop of delete_entries for one match
DeleteOne(f, m, fail) ==
    LET sto == Key(m.stored)
        rm == IF IsDir(f, sto)
              THEN FsRemoveDirAll(f, sto, IF fail THEN "fail" ELSE "ok")
              ELSE FsRemoveFile(f, sto, fail)
    IN  IF rm.ok
        THEN [fs |-> rm.fs, line |-> Line("Permanently deleted", PathStr(m.stored), "None"), gone |-> {sto}]
        ELSE [fs |-> rm.fs, line |-> Line("Failed to delete", PathStr(m.stored), rm.kind), gone |-> {}]

RECURSIVE DeleteLoop(_, _, _)
DeleteRest(r, ms, fail) == Then(r, DeleteLoop(r.fs, ms, fail))

DeleteLoop(f, ms, fail) ==
    IF ms = <<>> THEN [fs |-> f, lines |-> <<>>, gone |-> {}]
    ELSE DeleteRest(DeleteOne(f, Head(ms), fail), Tail(ms), fail)

\* delete_entries; names: the scan of the holding directory
delete_entries(f, filepaths, names, fail) == DeleteLoop(f, Matches(names, filepaths), fail)

\* list_entries: one line per entry of the holding directory, the part of
\* its name after the first '_', or the whole name when it has no '_'
list_entries(names) ==
    [i \in 1..Len(names) |->
        LET sp == SplitOnce(names[i], "_")
        IN  Line("", IF sp.found THEN sp.tail ELSE names[i], "None")]

(* ------------------------------ invocation ----------------------------- *)

\* the map of Cli::parse over an argument: relative paths are joined to the
\* working directory
ArgPath(a) ==
    LET q == PathNew(a) IN IF q.abs THEN q ELSE PathJoin(Cwd, q)

\* Cli::parse: only the first argument can be a flag
CliParse(argv) ==
    LET first == IF argv = <<>> THEN <<>> ELSE argv[1]
        command ==
            IF argv = <<>> THEN "Drop"
            ELSE IF first \in {<<"-", "-", "l", "i", "s", "t">>, <<"-", "l">>} THEN "List"
            ELSE IF first \in {<<"-", "-", "r", "e", "c", "o", "v", "e", "r">>, <<"-", "r">>} THEN "Recover"
            ELSE IF first \in {<<"-", "-", "d", "e", "l", "e", "t", "e">>, <<"-", "d">>} THEN "Delete"
            ELSE IF first \in {<<"-", "-", "h", "e", "l", "p">>, <<"-", "h">>} THEN "Help"
            ELSE "Drop"
        rest == IF argv = <<>> THEN <<>> ELSE [i \in 1..(Len(argv) - 1) |-> ArgPath(argv[i + 1])]
        filepaths ==
            IF argv = <<>> THEN <<>>
            ELSE IF command \in {"Recover", "Delete"} THEN rest
            ELSE IF command = "Drop" THEN <<ArgPath(first)>> \o rest
            ELSE <<>>
    IN  [ok |-> ~(command \in {"Drop", "Delete", "Recover"} /\ filepaths = <<>>),
         command |-> command, filepaths |-> filepaths]

\* main, lines 130-133: the holding directory is created when it is absent
EnsureRoot(f) == IF Exists(f, Key(Root)) THEN f ELSE FsCreateDir(f, Key(Root)).fs

\* the orders in which read_dir can yield the entries of the holding directory
ScanOrders(f) ==
    LET S == ChildNames(f, Key(Root))
    IN  {o \in [1..Cardinality(S) -> S] : \A i, j \in 1..Cardinality(S) : o[i] = o[j] => i = j}

\* the ledger without the entries whose stored object was moved or deleted
Forget(l, gone) == SelectSeq(l, LAMBDA r : r.loc \notin gone)

Idle == [cmd |-> "Idle", todo |-> <<>>, t |-> 0]

\* the end of recover_entries and delete_entries: r is what they leave
Finish(r) ==
    /\ fs' = r.fs
    /\ out' = r.lines
    /\ ledger' = Forget(ledger, r.gone)
    /\ UNCHANGED run

\* main, lines 123-141: cli is the result of Cli::parse, f0 the filesystem
\* once the holding directory is there
Dispatch(cli, f0, names, delFail) ==
    IF ~cli.ok
    THEN /\ out' = <<Line("Missing filepaths", <<>>, "None")>>
         /\ UNCHANGED <<fs, ledger, run>>
    ELSE CASE cli.command = "Drop" ->
              /\ fs' = f0
              /\ out' = <<>>
              /\ run' = [cmd |-> "Drop", todo |-> cli.filepaths, t |-> now]
              /\ UNCHANGED ledger
           [] cli.command = "Delete" ->
              Finish(delete_entries(f0, cli.filepaths, names, delFail))
           [] cli.command = "Recover" ->
              Finish(recover_entries(f0, cli.filepaths, names))
           [] cli.command = "List" ->
              /\ fs' = f0
              /\ out' = list_entries(names)
              /\ UNCHANGED <<ledger, run>>
           [] cli.command = "Help" ->
              /\ fs' = f0
              /\ out' = <<Line("USAGE", <<>>, "None")>>
              /\ UNCHANGED <<ledger, run>>

\* main: one invocation of the program.  A drop is left to run entry by
\* entry (DropStep); every other command runs to its last printed line.
\* names: the order of the scan of the holding directory; delFail: the
\* deletions of delete_entries fail with an I/O error.
Main(argv, names, delFail) ==
    /\ run = Idle
    /\ UNCHANGED <<xdev, now, envLeft, peer>>
    /\ Dispatch(CliParse(argv), EnsureRoot(fs), names, delFail)

(* ------------------------------- inputs -------------------------------- *)

D == <<"d">>
G == <<"g">>
AB == <<"a", "_", "b">>

\* the path arguments tried: a directory (holding the file g) and a file
\* named relative to the working directory whose name holds a '_'
PathArgs == {<<"/", "d">>, AB}

Batches == UNION {[1..n -> PathArgs] : n \in 1..MaxBatch}

(* ------------------------------- actions ------------------------------- *)

\* dr p1 .. pn, up to the loop of drop_entries
Drop == \E b \in Batches : Main(b, <<>>, FALSE)

\* one iteration of the loop of drop_entries.  An injected fault is one
\* that the iteration runs into.
\* DropIter with a `return` in place of the `continue` of lines 270, 289,
\* 301 and 305: a failed entry ends the batch
DropIterAbort(r, plain, fault) ==
    /\ fault = NoFault \/ r # plain
    /\ fs' = r.fs
    /\ out' = Append(out, r.line)
    /\ ledger' = ledger \o r.recs
    /\ run' = IF Len(run.todo) = 1 \/ r.recs = <<>> THEN Idle
              ELSE [run EXCEPT !.todo = Tail(run.todo)]
    /\ UNCHANGED <<xdev, now, envLeft, peer>>

\* the rest of one iteration of the loop of drop_entries: r is its outcome,
\* plain its outcome without an injected fault
DropIter(r, plain, fault) ==
    /\ fault = NoFault \/ r # plain
    /\ fs' = r.fs
    /\ out' = Append(out, r.line)
    /\ ledger' = ledger \o r.recs
    /\ run' = IF Len(run.todo) = 1 THEN Idle ELSE [run EXCEPT !.todo = Tail(run.todo)]
    /\ UNCHANGED <<xdev, now, envLeft, peer>>

DropStepWith(fault) ==
    /\ run.cmd = "Drop"
    /\ DropIter(DropOne(fs, Head(run.todo), run.t, fault),
                DropOne(fs, Head(run.todo), run.t, NoFault), fault)

DropStep == \E fault \in Faults : DropStepWith(fault)

\* dr -r p1 .. pn
Recover ==
    \E b \in Batches : \E names \in ScanOrders(EnsureRoot(fs)) :
        Main(<<<<"-", "r">>>> \o b, names, FALSE)

\* dr -d p1 .. pn
Delete ==
    \E b \in Batches : \E names \in ScanOrders(EnsureRoot(fs)) : \E fail \in BOOLEAN :
        Main(<<<<"-", "d">>>> \o b, names, fail)

\* dr -l
List == \E names \in ScanOrders(EnsureRoot(fs)) : Main(<<<<"-", "l">>>>, names, FALSE)

\* dr -h
Help == Main(<<<<"-", "h">>>>, <<>>, FALSE)

\* dr, dr -r, dr -d without a path
Rejected ==
    \E argv \in {<<>>, <<<<"-", "r">>>>, <<<<"-", "d">>>>} : Main(argv, <<>>, FALSE)

\* a change made by another process, between two invocations
EnvStep ==
    /\ run = Idle
    /\ envLeft > 0
    /\ envLeft' = envLeft - 1
    /\ out' = <<>>
    /\ UNCHANGED <<xdev, now, ledger, run, peer>>

\* another process creates a file where one was dropped from
EnvCreate ==
    \E k \in {<<D, G>>, <<AB>>} : \E c \in 1..MaxContent :
        /\ ~Exists(fs, k)
        /\ IsDir(fs, Parent(k))
        /\ fs' = Put(fs, k, FileNode(c))
        /\ EnvStep

\* another process creates the directory /d again
EnvMkdir ==
    /\ ~Exists(fs, <<D>>)
    /\ fs' = Put(fs, <<D>>, DirNode)
    /\ EnvStep

\* another process creates directories inside the holding directory
\* (mkdir -p /tmp/dr/{t}_)
EnvTamper ==
    \E t \in 0..MaxTime :
        LET k == Key(Root) \o <<StoredName(t, <<>>)>>
            mk == FsCreateDirAll(fs, k, FALSE)
        IN  /\ ~Exists(fs, k)
            /\ mk.ok
            /\ fs' = mk.fs
            /\ EnvStep

\* a second passes
Tick ==
    /\ run = Idle
    /\ now < MaxTime
    /\ now' = now + 1
    /\ UNCHANGED <<fs, xdev, out, run, ledger, envLeft, peer>>

Init ==
    /\ fs = [k \in {<<>>, Tmp, <<D>>, <<D, G>>, <<AB>>} |->
                IF k \in {<<D, G>>, <<AB>>} THEN FileNode(1) ELSE DirNode]
    /\ xdev \in BOOLEAN
    /\ now = 0
    /\ out = <<>>
    /\ run = Idle
    /\ ledger = <<>>
    /\ envLeft = MaxEnv
    /\ peer = <<>>

Next ==
    \/ Drop
    \/ DropStep
    \/ Recover
    \/ Delete
    \/ List
    \/ Help
    \/ Rejected
    \/ EnvCreate
    \/ EnvMkdir
    \/ EnvTamper
    \/ Tick

Spec == Init /\ [][Next]_vars

\* every node but the root lies in a directory
WellFormed == \A k \in DOMAIN fs : k = <<>> \/ IsDir(fs, Parent(k))

(* ------------------------- views used by the claims -------------------- *)

RootKey == Key(Root)

\* the names a scan of the holding directory yields
ScanNames(f) == ChildNames(f, RootKey)

\* the original paths `dr -l` prints, whatever the order of the scan
Listed(f) ==
    {list_entries(names)[i].arg : names \in ScanOrders(f), i \in 1..Cardinality(ScanNames(f))}

\* the entries drop reported as dropped for the original path p
EntriesOf(l, p) == {i \in 1..Len(l) : l[i].path = p}

\* the last line printed
LastLine == out[Len(out)]

\* the string of a path argument as drop stores it
Orig(a) == PathStr(ArgPath(a))

(* ------- recover_entries and delete_entries, run side by side ---------- *)

\* number of invocations that run side by side
NProc == 2

Procs == 1..NProc

A == <<"a">>
B == <<"b">>

\* a path relative to the working directory, as PathBuf::from decodes the
\* name of an entry of the holding directory
Rel(c) == [abs |-> FALSE, comps |-> <<c>>]

\* the paths given to recover_entries and delete_entries.  The functions
\* are applied to paths as the names of the holding directory decode
\* them; the paths Cli::parse hands over are absolute and select nothing.
LoopPaths == {Rel(A), Rel(B)}

\* batches without a repeated path
LoopBatches ==
    {b \in UNION {[1..n -> LoopPaths] : n \in 1..MaxBatch} :
        \A j, k \in 1..Len(b) : b[j] = b[k] => j = k}

\* holding directories with entries other processes put there: a file
\* whose name has no '_' and either two files stored for a, or a file
\* stored for a and a directory stored for b
LoopFss ==
    LET base == <<>> :> DirNode @@ Tmp :> DirNode @@ RootKey :> DirNode
                @@ Append(RootKey, A) :> FileNode(1)
                @@ Append(RootKey, StoredName(0, A)) :> FileNode(1)
    IN  { base @@ Append(RootKey, StoredName(1, A)) :> FileNode(2),
          base @@ Append(RootKey, StoredName(0, B)) :> DirNode
               @@ (RootKey \o <<StoredName(0, B), G>>) :> FileNode(1) }

IdleProc == [cmd |-> "Idle", pc |-> "start", ms |-> <<>>]
DoneProc == [cmd |-> "Done", pc |-> "end", ms |-> <<>>]

\* invocation i has collected the matches ms
Begin(i, cmd, pc, ms) ==
    peer' = [peer EXCEPT ![i] =
                IF ms = <<>> THEN DoneProc
                ELSE [cmd |-> cmd, pc |-> pc, ms |-> ms]]

\* invocation i is through with the first of its matches
Pop(i, pc) ==
    peer' = [peer EXCEPT ![i] =
                IF Len(peer[i].ms) = 1 THEN DoneProc
                ELSE [peer[i] EXCEPT !.ms = Tail(peer[i].ms), !.pc = pc]]

\* the invocations are numbered in the order of their start
Earlier(i) == \A j \in 1..(i - 1) : peer[j].cmd # "Idle"

\* recover_entries, lines 174-197: the scan, which yields names, and the
\* filter for the paths b
LRecoverWith(i, b, names) ==
    /\ peer[i].cmd = "Idle"
    /\ Earlier(i)
    /\ Begin(i, "Recover", "check", Matches(names, b))
    /\ out' = <<>>
    /\ UNCHANGED <<fs, xdev, now, run, ledger, envLeft>>

LRecover(i) ==
    \E b \in LoopBatches : \E names \in ScanOrders(fs) : LRecoverWith(i, b, names)

\* recover_entries, lines 200-203: the existence check for the next match
RecCheck(i) ==
    /\ peer[i].cmd = "Recover"
    /\ peer[i].pc = "check"
    /\ IF Exists(fs, Key(Head(peer[i].ms).original))
       THEN /\ out' = <<Line("File already exists", PathStr(Head(peer[i].ms).original), "None")>>
            /\ Pop(i, "check")
       ELSE /\ out' = <<>>
            /\ peer' = [peer EXCEPT ![i].pc = "move"]
    /\ UNCHANGED <<fs, xdev, now, run, ledger, envLeft>>

\* the filesystem and the line that the move r of invocation i leaves
Moved(i, r) ==
    /\ fs' = r.fs
    /\ out' = <<r.line>>
    /\ Pop(i, "check")
    /\ UNCHANGED <<xdev, now, run, ledger, envLeft>>

\* recover_entries, lines 205-216: the parent directories and the move
RecMove(i) ==
    /\ peer[i].cmd = "Recover"
    /\ peer[i].pc = "move"
    /\ Moved(i, RecoverMove(fs, Head(peer[i].ms)))

\* delete_entries, lines 221-244: the scan, which yields names, and the
\* filter for the paths b
LDeleteWith(i, b, names) ==
    /\ peer[i].cmd = "Idle"
    /\ Earlier(i)
    /\ Begin(i, "Delete", "del", Matches(names, b))
    /\ out' = <<>>
    /\ UNCHANGED <<fs, xdev, now, run, ledger, envLeft>>

LDelete(i) ==
    \E b \in LoopBatches : \E names \in ScanOrders(fs) : LDeleteWith(i, b, names)

\* the filesystem and the line that the deletion r of invocation i leaves
Deleted(i, r) ==
    /\ fs' = r.fs
    /\ out' = <<r.line>>
    /\ Pop(i, "del")
    /\ UNCHANGED <<xdev, now, run, ledger, envLeft>>

\* delete_entries, lines 246-258: the deletion of the next match
DelStep(i) ==
    \E fail \in BOOLEAN :
        /\ peer[i].cmd = "Delete"
        /\ Deleted(i, DeleteOne(fs, Head(peer[i].ms), fail))

\* list_entries; names: the scan of the holding directory
LListWith(names) ==
    /\ out' = list_entries(names)
    /\ UNCHANGED <<fs, xdev, now, run, ledger, envLeft, peer>>

LList == \E names \in ScanOrders(fs) : LListWith(names)

\* another process creates a file at a path an entry is stored for
LEnvCreate ==
    /\ ~Exists(fs, <<A>>)
    /\ fs' = Put(fs, <<A>>, FileNode(MaxContent))
    /\ out' = <<>>
    /\ UNCHANGED <<xdev, now, run, ledger, envLeft, peer>>

LoopsInit ==
    /\ fs \in LoopFss
    /\ xdev \in BOOLEAN
    /\ now = 0
    /\ out = <<>>
    /\ run = Idle
    /\ ledger = <<>>
    /\ envLeft = MaxEnv
    /\ peer = [i \in Procs |-> IdleProc]

LoopsNext ==
    \/ \E i \in Procs : LRecover(i)
    \/ \E i \in Procs : RecCheck(i)
    \/ \E i \in Procs : RecMove(i)
    \/ \E i \in Procs : LDelete(i)
    \/ \E i \in Procs : DelStep(i)
    \/ LList
    \/ LEnvCreate

SpecLoops == LoopsInit /\ [][LoopsNext]_vars

(* ------------------- a drop and a purge side by side ------------------- *)

S == <<"s">>
H == <<"h">>

\* the filesystem in which the two invocations start: the directory /d
\* holds the file g and the directory s with the file h, and the holding
\* directory holds the directories "{t}_" into which a drop stores
RaceFs ==
    [k \in {<<>>, Tmp, RootKey, <<D>>, <<D, S>>} \cup {Append(RootKey, StoredName(t, <<>>)) : t \in 0..MaxTime}
        |-> DirNode]
    @@ <<D, G>> :> FileNode(1) @@ <<D, S, H>> :> FileNode(2) @@ <<AB>> :> FileNode(1)

\* peer[1] is the drop, peer[2] the purge.  frames: the calls of
\* copy_dir_all that have not returned, the innermost last; at: the
\* position of the drop when the purge ran
DropProc(a) == [cmd |-> "Drop", pc |-> "start", arg |-> a, dst |-> <<>>, frames |-> <<>>, at |-> ""]
PurgeProc(a) == [cmd |-> "Purge", pc |-> "start", arg |-> a, dst |-> <<>>, frames |-> <<>>, at |-> ""]

\* the path of the drop, as Cli::parse hands it to drop_entries
RacePath == CliParse(<<peer[1].arg>>).filepaths[1]
RaceSrc == Key(RacePath)

\* the drop prints its line and returns
RaceEnd(f, line) ==
    /\ fs' = f
    /\ out' = Append(out, line)
    /\ peer' = [peer EXCEPT ![1].pc = "end", ![1].frames = <<>>]

\* drop_entries, lines 268-277: the existence check and the stored path
RDropBegin ==
    /\ peer[1].pc = "start"
    /\ IF ~Exists(fs, RaceSrc)
       THEN RaceEnd(EnsureRoot(fs), Line("File not found", PathStr(RacePath), "None"))
       ELSE /\ fs' = EnsureRoot(fs)
            /\ out' = out
            /\ peer' = [peer EXCEPT ![1].pc = "rename",
                                    ![1].dst = Key(StoredPath(fs, RacePath, now))]
    /\ UNCHANGED <<xdev, now, run, ledger, envLeft>>

\* rn is the result of the rename of line 279
RenameDone(rn) ==
    IF rn.ok THEN RaceEnd(rn.fs, Line("Dropped", PathStr(RacePath), "None"))
    ELSE IF rn.kind = "CrossesDevices"
    THEN /\ fs' = fs
         /\ out' = out
         /\ peer' = [peer EXCEPT ![1].pc = "copy",
                                 ![1].frames = IF IsDir(fs, RaceSrc)
                                               THEN <<[src |-> RaceSrc, dst |-> peer[1].dst,
                                                       todo |-> {}, read |-> FALSE]>>
                                               ELSE <<>>]
    ELSE RaceEnd(fs, Line("Failed to drop", PathStr(RacePath), rn.kind))

\* drop_entries, lines 279-281 and 303-306: the rename
RDropRename ==
    /\ peer[1].pc = "rename"
    /\ RenameDone(FsRename(fs, RaceSrc, peer[1].dst))
    /\ UNCHANGED <<xdev, now, run, ledger, envLeft>>

\* the calls of copy_dir_all that are left once those that have gone
\* through their entries have returned
RECURSIVE Unwind(_)
Unwind(fr) ==
    IF fr = <<>> THEN <<>>
    ELSE IF fr[Len(fr)].read /\ fr[Len(fr)].todo = {} THEN Unwind(SubSeq(fr, 1, Len(fr) - 1))
    ELSE fr

\* the copy goes on with the calls fr, or is through
CopyOn(f, fr) ==
    /\ fs' = f
    /\ out' = out
    /\ peer' = [peer EXCEPT ![1].frames = Unwind(fr),
                            ![1].pc = IF Unwind(fr) = <<>> THEN "remove" ELSE "copy"]

\* lines 287-290: the copy has failed
CopyFailed(f, e) == RaceEnd(f, Line("Failed to copy", PathStr(RacePath), e))

\* the frames fr with the innermost one replaced by top
WithTop(fr, top) == [fr EXCEPT ![Len(fr)] = top]

\* copy_dir_all, lines 314-316: create_dir_all(dst) and read_dir(src); mk
\* is the result of create_dir_all
CopyEnter(mk, fr, top) ==
    IF ~mk.ok THEN CopyFailed(mk.fs, mk.kind)
    ELSE IF ~IsDir(mk.fs, top.src) THEN CopyFailed(mk.fs, "NotFound")
    ELSE CopyOn(mk.fs, WithTop(fr, [top EXCEPT !.read = TRUE,
                                               !.todo = ChildNames(mk.fs, top.src)]))

\* copy_dir_all, lines 317-325: the entry n of the innermost call; cp is
\* the result of fs::copy
CopyEntry(cp, fr, top, n) ==
    IF IsDir(fs, Append(top.src, n))
    THEN CopyOn(fs, Append(WithTop(fr, [top EXCEPT !.todo = top.todo \ {n}]),
                           [src |-> Append(top.src, n), dst |-> Append(top.dst, n),
                            todo |-> {}, read |-> FALSE]))
    ELSE IF ~cp.ok THEN CopyFailed(cp.fs, cp.kind)
    ELSE CopyOn(cp.fs, WithTop(fr, [top EXCEPT !.todo = top.todo \ {n}]))

\* line 284: the filepath is a file; cp is the result of fs::copy
CopyFile(cp) == IF ~cp.ok THEN CopyFailed(cp.fs, cp.kind) ELSE CopyOn(cp.fs, <<>>)

\* one filesystem call of the copy of lines 281-285
CopyCall(fr, top) ==
    IF fr = <<>> THEN CopyFile(FsCopy(fs, RaceSrc, peer[1].dst, FALSE, FALSE))
    ELSE IF ~top.read THEN CopyEnter(FsCreateDirAll(fs, top.dst, FALSE), fr, top)
    ELSE \E n \in top.todo :
            CopyEntry(FsCopy(fs, Append(top.src, n), Append(top.dst, n), FALSE, FALSE),
                      fr, top, n)

RDropCopy ==
    /\ peer[1].pc = "copy"
    /\ CopyCall(peer[1].frames, peer[1].frames[Len(peer[1].frames)])
    /\ UNCHANGED <<xdev, now, run, ledger, envLeft>>

\* r is what the removal of the source and its report leave
RemoveDone(r) == RaceEnd(r.fs, r.line)

\* drop_entries, lines 292-309: the removal of the source
RDropRemove ==
    /\ peer[1].pc = "remove"
    /\ RemoveDone(AfterRemove(FallbackRemove(fs, RaceSrc, NoFault), RacePath, peer[1].dst, <<>>))
    /\ UNCHANGED <<xdev, now, run, ledger, envLeft>>

\* r is what delete_entries leaves
PurgeDone(r) ==
    /\ fs' = r.fs
    /\ out' = out \o r.lines
    /\ peer' = [peer EXCEPT ![2].pc = "end", ![2].at = peer[1].pc]

\* dr -d p for the path of the drop, at any point of the drop
RPurge ==
    \E names \in ScanOrders(EnsureRoot(fs)) :
        /\ peer[2].pc = "start"
        /\ PurgeDone(delete_entries(EnsureRoot(fs),
                                    CliParse(<<<<"-", "d">>, peer[2].arg>>).filepaths,
                                    names, FALSE))
        /\ UNCHANGED <<xdev, now, run, ledger, envLeft>>

RaceInit ==
    /\ fs = RaceFs
    /\ xdev \in BOOLEAN
    /\ now \in 0..MaxTime
    /\ out = <<>>
    /\ run = Idle
    /\ ledger = <<>>
    /\ envLeft = 0
    /\ \E a \in PathArgs : peer = <<DropProc(a), PurgeProc(a)>>

RaceNext ==
    \/ RDropBegin
    \/ RDropRename
    \/ RDropCopy
    \/ RDropRemove
    \/ RPurge

SpecRace == RaceInit /\ [][RaceNext]_vars

\* both invocations have returned
RaceDone == peer[1].pc = "end" /\ peer[2].pc = "end"

\* the filesystems that the drop and the purge leave when one runs after
\* the other, from the filesystem f
SerialOutcomes(f, arg, t) ==
    LET dropArgs == CliParse(<<arg>>).filepaths
        purgeArgs == CliParse(<<<<"-", "d">>, arg>>).filepaths
        dropped == DropOne(f, dropArgs[1], t, NoFault).fs
    IN  {delete_entries(dropped, purgeArgs, names, FALSE).fs : names \in ScanOrders(dropped)}
        \cup {DropOne(delete_entries(f, purgeArgs, names, FALSE).fs, dropArgs[1], t, NoFault).fs :
                 names \in ScanOrders(f)}

(* -------------------------------- claims ------------------------------- *)

\* the string half of C1: decode(encode(t, p)) = (t, p), also for a path
\* that holds a '_'
C1_Strings ==
    \A t \in 0..MaxTime : \A a \in PathArgs :
        SplitOnce(StoredName(t, Orig(a)), "_")
            = [found |-> TRUE, head |-> DecStr(t), tail |-> Orig(a)]

\* the stored half of C1: a scan of the holding directory yields, for every
\* entry drop stored and that is still there, a name that decodes to the
\* timestamp and the original path of the entry
C1_Stored ==
    \A i \in 1..Len(ledger) :
        Exists(fs, ledger[i].loc) =>
            \E n \in ScanNames(fs) :
                SplitOnce(n, "_")
                    = [found |-> TRUE, head |-> DecStr(ledger[i].ts), tail |-> ledger[i].path]

\* C1: the entry codec round-trips: splitting "{t}_{p}" at the first '_'
\* yields (t, p), and the original path that list, recover and purge decode
\* from the holding directory for an entry that drop stored is p.
C1_CodecRoundTrip == C1_Strings /\ C1_Stored

\* C2: drop(p) of a file directly followed by recover(p) leaves the file at
\* p with the content it had, no stored entry for p, and p not listed.
C2_DropThenRecover ==
    [][\A a \in PathArgs : \A names \in ScanOrders(EnsureRoot(fs)) :
          ( /\ Main(<<<<"-", "r">>, a>>, names, FALSE)
            /\ out = <<Line("Dropped", Orig(a), "None")>>
            /\ ledger # <<>>
            /\ ledger[Len(ledger)].tree[<<>>].kind = "file" )
          => /\ Exists(fs', Key(ArgPath(a)))
             /\ Subtree(fs', Key(ArgPath(a))) = ledger[Len(ledger)].tree
             /\ \A i \in EntriesOf(ledger, Orig(a)) : ~Exists(fs', ledger[i].loc)
             /\ Orig(a) \notin Listed(fs')]_vars

\* C3: two drops of the same path in the same second leave two distinct
\* stored entries, each with the content it was dropped with.
C3_DoubleDropKeepsBoth ==
    \A i, j \in 1..Len(ledger) :
        (i < j /\ ledger[i].ts = ledger[j].ts /\ ledger[i].path = ledger[j].path)
        => /\ ledger[i].loc # ledger[j].loc
           /\ Exists(fs, ledger[i].loc) /\ Subtree(fs, ledger[i].loc) = ledger[i].tree
           /\ Exists(fs, ledger[j].loc) /\ Subtree(fs, ledger[j].loc) = ledger[j].tree

\* C4: recover(p) with something at p and an entry stored for p reports
\* "already exists" and changes neither the object at p nor the stored entry.
C4_RecoverRefusesOverwrite ==
    [][\A a \in PathArgs : \A names \in ScanOrders(EnsureRoot(fs)) :
          ( /\ Main(<<<<"-", "r">>, a>>, names, FALSE)
            /\ Exists(fs, Key(ArgPath(a)))
            /\ \E i \in EntriesOf(ledger, Orig(a)) : Exists(fs, ledger[i].loc) )
          => /\ \E k \in 1..Len(out') :
                  out'[k] = Line("File already exists", Orig(a), "None")
             /\ fs' = fs]_vars

\* C5: after purge(p) without a deletion error no entry stored for p is
\* left, list does not print p and recover(p) restores nothing.
C5_PurgeRemovesAll ==
    [][\A a \in PathArgs : \A names \in ScanOrders(EnsureRoot(fs)) : \A fail \in BOOLEAN :
          ( /\ Main(<<<<"-", "d">>, a>>, names, fail)
            /\ \A k \in 1..Len(out') : out'[k].msg # "Failed to delete" )
          => /\ \A i \in EntriesOf(ledger, Orig(a)) : ~Exists(fs', ledger[i].loc)
             /\ Orig(a) \notin Listed(fs')
             /\ \A ns \in ScanOrders(fs') :
                    recover_entries(fs', <<ArgPath(a)>>, ns).fs = fs']_vars

C7_FlatHoldingStore ==
    /\ \A i \in 1..Len(ledger) :
          ledger[i].loc = Append(RootKey, StoredName(ledger[i].ts, ledger[i].path))
    /\ \A k \in 1..Len(out) :
          ~(out[k].msg = "Failed to drop" /\ out[k].err = "NotFound")

\* C8: when the rename crosses devices and the fallback copy fails, the
\* source keeps its whole content, nothing is recorded as dropped and the
\* entry is reported as failed.
C8_CopyFailureKeepsSource ==
    [][\A fault \in Faults :
          LET src == Key(Head(run.todo))
              dst == Key(StoredPath(fs, Head(run.todo), run.t))
          IN  ( /\ DropStepWith(fault)
                /\ Exists(fs, src)
                /\ FsRename(fs, src, dst).kind = "CrossesDevices"
                /\ ~FallbackCopy(fs, src, dst, fault).ok )
              => /\ Exists(fs', src)
                 /\ Subtree(fs', src) = Subtree(fs, src)
                 /\ ledger' = ledger
                 /\ out'[Len(out')].msg = "Failed to copy"]_vars

\* the drop of the directory /d has just reported that its fallback copy
\* failed, after the copy had created the directory in the holding
\* directory and before it had copied the file in it
C8_Witness ==
    /\ xdev
    /\ run = Idle
    /\ out # <<>>
    /\ LastLine.msg = "Failed to copy"
    /\ LastLine.arg = <<"/", "d">>
    /\ Exists(fs, <<D, G>>)
    /\ \E t \in 0..MaxTime :
          LET dst == RootKey \o <<StoredName(t, <<>>), D>>
          IN  IsDir(fs, dst) /\ (Exists(fs, Append(dst, G)) => fs[Append(dst, G)].data = 0)

\* C9: when the fallback copy succeeded and the removal of the source
\* fails, the copy in the holding directory is removed, the source is
\* intact and the entry is reported as failed.
C9_RemoveFailureRollsBack ==
    [][\A fault \in Faults :
          LET src == Key(Head(run.todo))
              dst == Key(StoredPath(fs, Head(run.todo), run.t))
              cp == FallbackCopy(fs, src, dst, fault)
          IN  ( /\ DropStepWith(fault)
                /\ Exists(fs, src)
                /\ FsRename(fs, src, dst).kind = "CrossesDevices"
                /\ cp.ok
                /\ ~FallbackRemove(cp.fs, src, fault).ok )
              => /\ ~Exists(fs', dst)
                 /\ Exists(fs', src)
                 /\ Subtree(fs', src) = Subtree(fs, src)
                 /\ out'[Len(out')].msg = "Failed to remove original"]_vars

\* C10: dr -h leaves the filesystem as it is.
C10_HelpTouchesNothing == [][Help => fs' = fs]_vars

\* no name in the holding directory of f decodes to the requested path p
NoEntryFor(f, p) ==
    \A n \in ScanNames(f) :
        ~(SplitOnce(n, "_").found /\ PathNew(SplitOnce(n, "_").tail) = p)

\* C11: a recover or purge of a path for which the holding directory has no
\* entry prints a report about that path.
C11_ZeroMatchesReported ==
    [][\A a \in PathArgs : \A names \in ScanOrders(EnsureRoot(fs)) : \A fail \in BOOLEAN :
          ( /\ \/ Main(<<<<"-", "r">>, a>>, names, FALSE)
               \/ Main(<<<<"-", "d">>, a>>, names, fail)
            /\ NoEntryFor(EnsureRoot(fs), ArgPath(a)) )
          => \E k \in 1..Len(out') : out'[k].arg = Orig(a)]_vars

\* C13: after a successful recursive copy of a directory (the cross-device
\* fallback of drop) the destination tree has exactly the relative paths
\* of the source, directories as directories and files with their content.
C13_CopyPreservesStructure ==
    [][\A fault \in Faults :
          LET src == Key(Head(run.todo))
              dst == Key(StoredPath(fs, Head(run.todo), run.t))
              cp == FallbackCopy(fs, src, dst, fault)
          IN  ( /\ DropStepWith(fault)
                /\ IsDir(fs, src)
                /\ FsRename(fs, src, dst).kind = "CrossesDevices"
                /\ cp.ok )
              => Subtree(cp.fs, dst) = Subtree(fs, src)]_vars

\* C15: in a drop batch a path that does not exist is reported as not found
\* without a change of the filesystem, every entry gets its one report,
\* its outcome is that of dropping it alone from the state before it, and
\* after any outcome the loop goes on with the next path of the batch.
C15_FailuresDoNotAbort ==
    [][\A fault \in Faults :
          DropStepWith(fault) =>
              LET p == Head(run.todo)
                  alone == DropOne(fs, p, run.t, fault)
              IN  /\ ~Exists(fs, Key(p)) =>
                        /\ fs' = fs
                        /\ out'[Len(out')] = Line("File not found", PathStr(p), "None")
                  /\ Len(out') = Len(out) + 1
                  /\ fs' = alone.fs
                  /\ out'[Len(out')] = alone.line
                  /\ Len(run.todo) > 1 =>
                        /\ run'.cmd = "Drop"
                        /\ run'.todo = Tail(run.todo)
                        /\ run'.t = run.t]_vars

\* a batch of two has ended whose first path was not found and whose second
\* path was dropped
C15_Witness ==
    /\ run = Idle
    /\ Len(out) = 2
    /\ out[1].msg = "File not found"
    /\ out[2].msg = "Dropped"
    /\ ledger # <<>>
    /\ Exists(fs, ledger[Len(ledger)].loc)

\* path strings with a '.' and a '..' component: ./a_b and d/../a_b
DotArgs == {<<".", "/", "a", "_", "b">>, <<"d", "/", ".", ".", "/", "a", "_", "b">>}

\* Path::exists() of a path with '..' components: every directory that a
\* '..' leaves is there, and so is the object the path leads to
Resolves(f, k) ==
    /\ \A i \in 1..Len(k) :
          k[i] = <<".", ".">> => IsDir(f, DotDot(SubSeq(k, 1, i - 1), <<>>))
    /\ Exists(f, DotDot(k, <<>>))

\* C17: for a path string that names an existing entry, the original path
\* that drop encodes in the stored name, decoded as recover and purge
\* decode it, is the path to which recover and purge resolve the string.
C17_ResolverConsistency ==
    \A s \in PathArgs \cup DotArgs :
        Resolves(fs, Key(ArgPath(s)))
            => PathNew(PathStr(canonicalize(fs, ArgPath(s)))) = ArgPath(s)

\* the names in the holding directory of f that have no '_'
NoSep(f) == {n \in ScanNames(f) : ~SplitOnce(n, "_").found}

\* C12: with names without '_' in the holding directory, list prints such
\* a name as it is, the filters of recover and purge never select such an
\* entry, and no step of a recover or a purge moves, deletes or changes it.
C12_UnparseableTolerated ==
    [][/\ \A names \in ScanOrders(fs) :
             LListWith(names) =>
                 /\ Len(out') = Len(names)
                 /\ \A k \in 1..Len(names) :
                        names[k] \in NoSep(fs) => out'[k] = Line("", names[k], "None")
       /\ \A n \in NoSep(fs) :
             /\ Exists(fs', Append(RootKey, n))
             /\ Subtree(fs', Append(RootKey, n)) = Subtree(fs, Append(RootKey, n))
             /\ \A i \in Procs : \A k \in 1..Len(peer'[i].ms) :
                    Key(peer'[i].ms[k].stored) # Append(RootKey, n)]_vars

\* a recover has moved the entry stored for a back to a, and the file of
\* the holding directory whose name is a, without '_', is where it was
C12_Witness ==
    /\ out = <<Line("Recovered", A, "None")>>
    /\ Exists(fs, <<A>>)
    /\ A \in NoSep(fs)
    /\ fs[Append(RootKey, A)] = FileNode(1)

Pos(b, p) == CHOOSE j \in 1..Len(b) : b[j] = p /\ \A k \in 1..(j - 1) : b[k] # p

\* the matches ms come in the order of the paths of the batch b
InCallerOrder(ms, b) ==
    \A j, k \in 1..Len(ms) :
        j < k => Pos(b, ms[j].original) <= Pos(b, ms[k].original)

Same(k) ==
    /\ k \in DOMAIN fs <=> k \in DOMAIN fs'
    /\ k \in DOMAIN fs => fs'[k] = fs[k]

\* C20: a recover or purge for the paths b selects only entries whose
\* decoded original path is in b; a move changes nothing but the selected
\* entry and its original path, creating missing parent directories at
\* most; a deletion changes nothing but the selected entry; the scan and
\* the existence check change nothing.
C20_Frame ==
    [][/\ \A i \in Procs : \A b \in LoopBatches : \A names \in ScanOrders(fs) :
             (LRecoverWith(i, b, names) \/ LDeleteWith(i, b, names)) =>
                 /\ fs' = fs
                 /\ \A k \in 1..Len(peer'[i].ms) :
                        LET m == peer'[i].ms[k]
                            sp == SplitOnce(FileName(m.stored), "_")
                        IN  /\ Parent(Key(m.stored)) = RootKey
                            /\ sp.found
                            /\ PathNew(sp.tail) = m.original
                            /\ Contains(b, m.original)
       /\ \A i \in Procs : RecCheck(i) => fs' = fs
       /\ \A i \in Procs :
             LET sto == Key(Head(peer[i].ms).stored)
                 orig == Key(Head(peer[i].ms).original)
             IN  /\ RecMove(i) =>
                        \A k \in DOMAIN fs \cup DOMAIN fs' :
                            \/ IsPrefix(sto, k)
                            \/ IsPrefix(orig, k)
                            \/ IsPrefix(k, orig) /\ k \notin DOMAIN fs /\ fs'[k] = DirNode
                            \/ Same(k)
                 /\ DelStep(i) =>
                        \A k \in DOMAIN fs \cup DOMAIN fs' : IsPrefix(sto, k) \/ Same(k)]_vars

\* a purge has deleted the directory stored for b, and the entry stored
\* for a and the file without '_' are still in the holding directory
C20_Witness ==
    /\ out # <<>>
    /\ out[1].msg = "Permanently deleted"
    /\ ~Exists(fs, Append(RootKey, StoredName(0, B)))
    /\ ~Exists(fs, <<B>>)
    /\ Exists(fs, Append(RootKey, StoredName(0, A)))
    /\ Exists(fs, Append(RootKey, A))

=============================================================================
